---- MODULE Spec2Model ----
(***************************************************************************)
(* Character Creator API (backend/main.py, schemas.py).                    *)
(*                                                                         *)
(* The store holds two collections, "user" and "character".  Every HTTP    *)
(* handler of main.py is one action of Spec: the handlers are `async def`  *)
(* bodies without an await, so inside the single uvicorn process started   *)
(* by main.py each one runs to completion.  SpecRace splits signup into    *)
(* its three store round trips, as they interleave when several server     *)
(* processes share the store.                                              *)
(*                                                                         *)
(* Strings that the code takes apart (email, username) are sequences of    *)
(* characters; the other strings are TLA+ strings.  An ObjectId is a       *)
(* natural number n whose string form is HexIds[n].                        *)
(***************************************************************************)
EXTENDS Integers, Sequences, FiniteSets, TLC

VARIABLES
    dbUp,        \* database.db is not None
    users,       \* collection db["user"], in store order
    characters,  \* collection db["character"], in store order
    nextOid,     \* the next ObjectId the store assigns
    last,        \* the last request served and its response
    wpc,         \* SpecRace: position of each server process inside signup
    wreq,        \* SpecRace: the payload each process is serving
    wseen,       \* SpecRace: number of stored users when the process checked
    wid,         \* SpecRace: the id string create_document returned
    wresp,       \* SpecRace: the response of each process
    raced        \* SpecRace: _ids inserted after another insert overtook the check

vars == <<dbUp, users, characters, nextOid, last, wpc, wreq, wseen, wid, wresp, raced>>

storeVars == <<users, characters, nextOid>>
raceVars == <<wpc, wreq, wseen, wid, wresp, raced>>

-----------------------------------------------------------------------------
(* Bounds *)

\* documents the store may hold (users and characters together)
MaxDocs == 3

-----------------------------------------------------------------------------
(* Values *)

Min(S) == CHOOSE x \in S : \A y \in S : x <= y

\* Optional[str]: None, or a value
None == [some |-> FALSE, val |-> <<>>]
Some(v) == [some |-> TRUE, val |-> v]
NoneId == [some |-> FALSE, val |-> ""]

\* str(ObjectId): 24 hexadecimal digits
HexIds == << "650000000000000000000001", "650000000000000000000002",
             "650000000000000000000003", "650000000000000000000004",
             "650000000000000000000005", "650000000000000000000006",
             "650000000000000000000007", "650000000000000000000008" >>

\* an ObjectId string no document ever gets
UnissuedId == HexIds[Len(HexIds)]

\* bson.ObjectId(s) raises InvalidId unless s is 24 hex digits
IsValidOid(s) == \E n \in DOMAIN HexIds : HexIds[n] = s

\* bson.ObjectId(s) for a valid s
ObjectId(s) == CHOOSE n \in DOMAIN HexIds : HexIds[n] = s

\* str(oid)
OidStr(n) == HexIds[n]

SHA256_pw1 == "c592df4a86933b92addc9842402ddf198c638ea9be58916ee6e3734e1e3152f8"
SHA256_pw2 == "93915a0a4bf8f634cb1856494dd4304472ad46b9827f541f76b6761c49cc55b0"

\* hashlib.sha256(pw.encode("utf-8")).hexdigest()
hash_password(pw) ==
    CASE pw = "pw1" -> SHA256_pw1
      [] pw = "pw2" -> SHA256_pw2

\* email.split("@")[0]: the part before the first "@", the whole string without one
LocalPart(email) ==
    LET at == {i \in 1..Len(email) : email[i] = "@"}
    IN  IF at = {} THEN email ELSE SubSeq(email, 1, Min(at) - 1)

\* to_str_id(doc): a copy of doc with "_id" replaced by "id" = str(_id)
to_str_id(doc) ==
    [k \in (DOMAIN doc \ {"_id"}) \cup {"id"} |->
        IF k = "id" THEN OidStr(doc._id) ELSE doc[k]]

PREVIEW_URL == "https://images.unsplash.com/photo-1542272604-787c3835535d?q=80&w=1200&auto=format&fit=crop"

ValidPlans == {"free", "plus", "pro"}

\* the default of list_characters' limit parameter
DefaultLimit == 20

-----------------------------------------------------------------------------
(* Request inputs *)

Emails == { <<"a", "@", "x">>, <<"@", "y">> }
Usernames == { None, Some(<<>>), Some(<<"z">>) }
Passwords == {"pw1", "pw2"}
AuthPayloads == [email : Emails, password : Passwords, username : Usernames]

IdStrings == {HexIds[1], UnissuedId, "guest", "not-an-id"}
OptionalIds == {NoneId, Some(""), Some(HexIds[1])}
Plans == {"free", "pro", "gold"}
PlanPayloads == [user_id : IdStrings, plan : Plans]
Settings == { {<<"style", "noir">>} }
CharacterPayloads == [prompt : {"a knight"}, settings : Settings]
Limits == {-1, 0, 1, DefaultLimit}

-----------------------------------------------------------------------------
(* Responses *)

Ok(body) == [status |-> 200, detail |-> "", body |-> body]
HTTPException(code, detail) == [status |-> code, detail |-> detail, body |-> <<>>]
Unavailable == HTTPException(500, "Database not available")

-----------------------------------------------------------------------------
(* Persistence gateway *)

\* a document matches an equality filter (a mapping field -> expected value)
Matches(doc, filter) ==
    \A k \in DOMAIN filter : k \in DOMAIN doc /\ doc[k] = filter[k]

\* collection.find_one(filter): index of the first match, 0 for None
FindOne(coll, filter) ==
    LET hit == {i \in 1..Len(coll) : Matches(coll[i], filter)}
    IN  IF hit = {} THEN 0 ELSE Min(hit)

\* collection.find(filter): the matching documents, in store order
Find(coll, filter) == SelectSeq(coll, LAMBDA d : Matches(d, filter))

\* create_document(collection, record): the collection with the new document
create_document(coll, record, oid) ==
    Append(coll, [k \in DOMAIN record \cup {"_id"} |->
                     IF k = "_id" THEN oid ELSE record[k]])

\* get_documents(collection, filter, limit): at most limit matching documents
get_documents(coll, filter, limit) ==
    LET found == Find(coll, filter)
    IN  IF limit <= 0 THEN <<>>
        ELSE IF limit < Len(found) THEN SubSeq(found, 1, limit) ELSE found

-----------------------------------------------------------------------------
(* Handlers: each maps the store and a request to a response and a store *)

\* faulty variant: the existence check looks the email up in the username field
EmailRegisteredByUsername(us, payload) ==
    FindOne(us, [username |-> payload.email]) /= 0

\* faulty variant: the existence check also compares the password digest, as login does
EmailAndPasswordRegistered(us, payload) ==
    FindOne(us, [email |-> payload.email,
                 password_hash |-> hash_password(payload.password)]) /= 0

\* signup: db["user"].find_one({"email": payload.email}) found a document
EmailRegistered(us, payload) ==
    FindOne(us, [email |-> payload.email]) /= 0

\* faulty variant: the User stores the password itself instead of its digest
NewUserPlainPassword(payload) ==
    LET username == IF payload.username.some /\ payload.username.val /= <<>>
                    THEN payload.username.val
                    ELSE LocalPart(payload.email)
    IN  [email |-> payload.email, username |-> username,
         password_hash |-> payload.password, plan |-> "free"]

\* signup: username default and the User record
NewUser(payload) ==
    LET username == IF payload.username.some /\ payload.username.val /= <<>>
                    THEN payload.username.val
                    ELSE LocalPart(payload.email)
    IN  [email |-> payload.email, username |-> username,
         password_hash |-> hash_password(payload.password), plan |-> "free"]

\* signup: re-read of the inserted document by its id string
ReadById(coll, idStr) ==
    LET i == FindOne(coll, [_id |-> ObjectId(idStr)])
    IN  IF i = 0 THEN <<>> ELSE to_str_id(coll[i])

signup(up, us, oid, payload) ==
    IF ~up THEN [resp |-> Unavailable, users |-> us, nextOid |-> oid]
    ELSE IF EmailRegistered(us, payload)
    THEN [resp |-> HTTPException(400, "Email already registered"),
          users |-> us, nextOid |-> oid]
    ELSE LET us2 == create_document(us, NewUser(payload), oid)
             user_id == OidStr(oid)
         IN  [resp |-> Ok(ReadById(us2, user_id)), users |-> us2, nextOid |-> oid + 1]

login(up, us, payload) ==
    IF ~up THEN Unavailable
    ELSE LET i == FindOne(us, [email |-> payload.email,
                               password_hash |-> hash_password(payload.password)])
         IN  IF i = 0 THEN HTTPException(401, "Invalid credentials")
             ELSE Ok(to_str_id(us[i]))

\* the body of me's try block: what it returns or raises
MeTry(us, user_id) ==
    IF ~IsValidOid(user_id)
    THEN [raised |-> TRUE, resp |-> HTTPException(500, "InvalidId")]
    ELSE LET i == FindOne(us, [_id |-> ObjectId(user_id)])
         IN  IF i = 0
             THEN [raised |-> TRUE, resp |-> HTTPException(404, "User not found")]
             ELSE [raised |-> FALSE, resp |-> Ok(to_str_id(us[i]))]

\* me: `except Exception` turns whatever the try block raises into a 400
me(up, us, user_id) ==
    IF ~up THEN Unavailable
    ELSE LET t == MeTry(us, user_id)
         IN  IF t.raised THEN HTTPException(400, "Invalid user id") ELSE t.resp

\* faulty variant: the Character takes user_id as given, without the "guest" default
NewCharacterNoSentinel(payload, user_id) ==
    [user_id |-> user_id.val,
     prompt |-> payload.prompt, settings |-> payload.settings,
     preview_url |-> PREVIEW_URL]

\* generate_character: the Character record
NewCharacter(payload, user_id) ==
    [user_id |-> IF user_id.some /\ user_id.val /= "" THEN user_id.val ELSE "guest",
     prompt |-> payload.prompt, settings |-> payload.settings,
     preview_url |-> PREVIEW_URL]

generate_character(up, cs, oid, payload, user_id) ==
    IF ~up THEN [resp |-> Unavailable, characters |-> cs, nextOid |-> oid]
    ELSE LET cs2 == create_document(cs, NewCharacter(payload, user_id), oid)
             char_id == OidStr(oid)
         IN  [resp |-> Ok(ReadById(cs2, char_id)), characters |-> cs2,
              nextOid |-> oid + 1]

\* [to_str_id(d) for d in docs]
MapToStrId(docs) == [i \in 1..Len(docs) |-> to_str_id(docs[i])]

\* faulty variant: the query filter is empty, so every owner's characters match
list_charactersAllOwners(up, cs, user_id, limit) ==
    IF ~up THEN Unavailable
    ELSE Ok(MapToStrId(get_documents(cs, <<>>, limit)))

list_characters(up, cs, user_id, limit) ==
    IF ~up THEN Unavailable
    ELSE Ok(MapToStrId(get_documents(cs, [user_id |-> user_id], limit)))

\* faulty variant: any non-empty plan passes the validation
IsValidPlanNonEmpty(plan) == plan /= ""

\* update_plan: payload.plan in {"free", "plus", "pro"}
IsValidPlan(plan) == plan \in ValidPlans

\* faulty variant: the update replaces the document instead of setting one field
SetPlanReplaceDocument(us, i, plan) ==
    [us EXCEPT ![i] = [_id |-> us[i]._id, email |-> <<>>, username |-> <<>>,
                       password_hash |-> "", plan |-> plan]]

\* update_one({"_id": ...}, {"$set": {"plan": plan}}) on document i
SetPlan(us, i, plan) == [us EXCEPT ![i].plan = plan]

\* the body of update_plan's try block: what it returns or raises, and the users
UpdatePlanTry(us, payload) ==
    IF ~IsValidOid(payload.user_id)
    THEN [raised |-> TRUE, resp |-> HTTPException(500, "InvalidId"), users |-> us]
    ELSE LET i == FindOne(us, [_id |-> ObjectId(payload.user_id)])
         IN  IF i = 0
             THEN [raised |-> TRUE, resp |-> HTTPException(404, "User not found"),
                   users |-> us]
             ELSE LET us2 == SetPlan(us, i, payload.plan)
                  IN  [raised |-> FALSE, resp |-> Ok(ReadById(us2, payload.user_id)),
                       users |-> us2]

\* faulty variant: the plan is validated before the store is checked
update_planValidateFirst(up, us, payload) ==
    IF payload.plan \notin ValidPlans
    THEN [resp |-> HTTPException(400, "Invalid plan"), users |-> us]
    ELSE IF ~up THEN [resp |-> Unavailable, users |-> us]
    ELSE LET t == UpdatePlanTry(us, payload)
         IN  IF t.raised
             THEN [resp |-> HTTPException(400, "Invalid user id"), users |-> t.users]
             ELSE [resp |-> t.resp, users |-> t.users]

update_plan(up, us, payload) ==
    IF ~up THEN [resp |-> Unavailable, users |-> us]
    ELSE IF ~IsValidPlan(payload.plan)
    THEN [resp |-> HTTPException(400, "Invalid plan"), users |-> us]
    ELSE LET t == UpdatePlanTry(us, payload)
         IN  IF t.raised
             THEN [resp |-> HTTPException(400, "Invalid user id"), users |-> t.users]
             ELSE [resp |-> t.resp, users |-> t.users]

root == Ok([message |-> "Character Creator API"])

test_database(up) ==
    Ok([backend |-> "Running",
        database |-> IF ~up THEN "Not Available" ELSE "Connected"])

-----------------------------------------------------------------------------
(* The state machine: one action per request *)

NoRequest == [op |-> "none", req |-> <<>>, resp |-> Ok(<<>>)]
NoResponse == [status |-> 0, detail |-> "", body |-> <<>>]
Workers == {1, 2}

Init ==
    /\ dbUp \in BOOLEAN
    /\ users = <<>>
    /\ characters = <<>>
    /\ nextOid = 1
    /\ last = NoRequest
    /\ wpc = [w \in Workers |-> "idle"]
    /\ wreq = [w \in Workers |-> <<>>]
    /\ wseen = [w \in Workers |-> 0]
    /\ wid = [w \in Workers |-> ""]
    /\ wresp = [w \in Workers |-> NoResponse]
    /\ raced = {}

Signup ==
    \E payload \in AuthPayloads :
        LET r == signup(dbUp, users, nextOid, payload)
        IN  /\ r.nextOid <= MaxDocs + 1
            /\ users' = r.users
            /\ nextOid' = r.nextOid
            /\ last' = [op |-> "signup", req |-> payload, resp |-> r.resp]
            /\ UNCHANGED <<dbUp, characters, raceVars>>

Login ==
    \E email \in Emails, password \in Passwords :
        LET payload == [email |-> email, password |-> password, username |-> None]
        IN  /\ last' = [op |-> "login", req |-> payload,
                        resp |-> login(dbUp, users, payload)]
            /\ UNCHANGED <<dbUp, storeVars, raceVars>>

Me ==
    \E user_id \in IdStrings :
        /\ last' = [op |-> "me", req |-> [user_id |-> user_id],
                    resp |-> me(dbUp, users, user_id)]
        /\ UNCHANGED <<dbUp, storeVars, raceVars>>

GenerateCharacter ==
    \E payload \in CharacterPayloads, user_id \in OptionalIds :
        LET r == generate_character(dbUp, characters, nextOid, payload, user_id)
        IN  /\ r.nextOid <= MaxDocs + 1
            /\ characters' = r.characters
            /\ nextOid' = r.nextOid
            /\ last' = [op |-> "generate_character",
                        req |-> [payload |-> payload, user_id |-> user_id],
                        resp |-> r.resp]
            /\ UNCHANGED <<dbUp, users, raceVars>>

ListCharacters ==
    \E user_id \in IdStrings, limit \in Limits :
        /\ last' = [op |-> "list_characters",
                    req |-> [user_id |-> user_id, limit |-> limit],
                    resp |-> list_characters(dbUp, characters, user_id, limit)]
        /\ UNCHANGED <<dbUp, storeVars, raceVars>>

UpdatePlan ==
    \E payload \in PlanPayloads :
        LET r == update_plan(dbUp, users, payload)
        IN  /\ users' = r.users
            /\ last' = [op |-> "update_plan", req |-> payload, resp |-> r.resp]
            /\ UNCHANGED <<dbUp, characters, nextOid, raceVars>>

Root ==
    /\ last' = [op |-> "root", req |-> <<>>, resp |-> root]
    /\ UNCHANGED <<dbUp, storeVars, raceVars>>

TestDatabase ==
    /\ last' = [op |-> "test_database", req |-> <<>>, resp |-> test_database(dbUp)]
    /\ UNCHANGED <<dbUp, storeVars, raceVars>>

Next ==
    \/ Signup
    \/ Login
    \/ Me
    \/ GenerateCharacter
    \/ ListCharacters
    \/ UpdatePlan
    \/ Root
    \/ TestDatabase

Spec == Init /\ [][Next]_vars

-----------------------------------------------------------------------------
(* signup as several server processes run it: one action per store round   *)
(* trip (find_one by email, create_document, find_one by id)               *)

RacePayloads == [email : Emails, password : Passwords, username : {None}]

\* db["user"].find_one({"email": payload.email}) and the `if existing` test
SignupCheck(w) ==
    /\ wpc[w] = "idle"
    /\ \E payload \in RacePayloads :
        IF ~dbUp
        THEN /\ wresp' = [wresp EXCEPT ![w] = Unavailable]
             /\ UNCHANGED <<wpc, wreq, wseen>>
        ELSE IF EmailRegistered(users, payload)
        THEN /\ wresp' = [wresp EXCEPT ![w] =
                            HTTPException(400, "Email already registered")]
             /\ UNCHANGED <<wpc, wreq, wseen>>
        ELSE /\ wpc' = [wpc EXCEPT ![w] = "checked"]
             /\ wreq' = [wreq EXCEPT ![w] = payload]
             /\ wseen' = [wseen EXCEPT ![w] = Len(users)]
             /\ wresp' = [wresp EXCEPT ![w] = NoResponse]
    /\ UNCHANGED <<dbUp, storeVars, last, wid, raced>>

\* user_id = create_document("user", user)
SignupInsert(w) ==
    /\ wpc[w] = "checked"
    /\ nextOid <= MaxDocs
    /\ users' = create_document(users, NewUser(wreq[w]), nextOid)
    /\ nextOid' = nextOid + 1
    /\ wid' = [wid EXCEPT ![w] = OidStr(nextOid)]
    /\ raced' = IF Len(users) > wseen[w] THEN raced \cup {nextOid} ELSE raced
    /\ wpc' = [wpc EXCEPT ![w] = "inserted"]
    /\ UNCHANGED <<dbUp, characters, last, wreq, wseen, wresp>>

\* doc = db["user"].find_one({"_id": ObjectId(user_id)}); return to_str_id(doc)
SignupReturn(w) ==
    /\ wpc[w] = "inserted"
    /\ wresp' = [wresp EXCEPT ![w] = Ok(ReadById(users, wid[w]))]
    /\ wpc' = [wpc EXCEPT ![w] = "idle"]
    /\ wreq' = [wreq EXCEPT ![w] = <<>>]
    /\ wid' = [wid EXCEPT ![w] = ""]
    /\ UNCHANGED <<dbUp, storeVars, last, wseen, raced>>

NextRace ==
    \E w \in Workers :
        \/ SignupCheck(w)
        \/ SignupInsert(w)
        \/ SignupReturn(w)

SpecRace == Init /\ [][NextRace]_vars

-----------------------------------------------------------------------------
(* Properties *)

Range(f) == {f[i] : i \in DOMAIN f}
StoredEmails(us) == {us[i].email : i \in DOMAIN us}
StoredIds(coll) == {coll[i]._id : i \in DOMAIN coll}
UserView(us) == {to_str_id(us[i]) : i \in DOMAIN us}
CharacterView(cs) == {to_str_id(cs[i]) : i \in DOMAIN cs}
Handlers == {"signup", "login", "me", "generate_character",
             "list_characters", "update_plan"}

\* the login that follows a signup step, with the signup's credentials
LoginAfter == login(dbUp, users', [email |-> last'.req.email,
                                   password |-> last'.req.password,
                                   username |-> None])

SignupOfUnseenEmail ==
    /\ last'.op = "signup"
    /\ dbUp
    /\ last'.req.email \notin StoredEmails(users)

SignupLoginAgree(username) ==
    /\ last'.resp.status = 200
    /\ last'.resp.body.plan = "free"
    /\ last'.resp.body.username = username
    /\ LoginAfter.status = 200
    /\ LoginAfter.body.email = last'.req.email
    /\ LoginAfter.body.id = last'.resp.body.id
    /\ LoginAfter.body.plan = "free"
    /\ LoginAfter.body.username = username

\* C1 as stated: a signup with an unseen email succeeds, and the login that
\* follows with the same credentials succeeds and returns the same id and email,
\* plan free, and the supplied username, or the email's part before "@" when
\* none was supplied.
C1_SignupThenLogin_AsStated ==
    [][SignupOfUnseenEmail =>
        SignupLoginAgree(IF last'.req.username.some
                         THEN last'.req.username.val
                         ELSE LocalPart(last'.req.email))]_vars

\* C1 amended: the same, the username being the supplied one when it is not
\* empty, and the email's part before the first "@" when none or an empty one
\* was supplied.
C1_SignupThenLogin ==
    [][SignupOfUnseenEmail =>
        SignupLoginAgree(IF last'.req.username.some /\ last'.req.username.val /= <<>>
                         THEN last'.req.username.val
                         ELSE LocalPart(last'.req.email))]_vars

C1_Witness ==
    /\ last.op = "signup"
    /\ last.resp.status = 200
    /\ last.req.username = Some(<<>>)
    /\ last.resp.body.username = <<"a">>
    /\ Len(users) = 2
    /\ login(dbUp, users, last.req).status = 200

\* C2: a signup whose email a stored User already has fails with 400 "Email
\* already registered" and leaves the stored users as they were.
C2_DuplicateSignupRejected ==
    [][(last'.op = "signup" /\ last'.req.email \in StoredEmails(users)) =>
        /\ last'.resp = HTTPException(400, "Email already registered")
        /\ users' = users
        /\ nextOid' = nextOid]_vars

C2_Witness ==
    /\ last.op = "signup"
    /\ last.resp.status = 400
    /\ last.resp.detail = "Email already registered"
    /\ last.req.email \in StoredEmails(users)

\* C3: GET /me answers 404 for a well-formed id that no stored User has and 400
\* for a malformed id.
C3_MeNotFoundVersusBadRequest ==
    (last.op = "me" /\ dbUp) =>
        /\ (IsValidOid(last.req.user_id)
              /\ ObjectId(last.req.user_id) \notin StoredIds(users))
            => last.resp.status = 404
        /\ ~IsValidOid(last.req.user_id) => last.resp.status = 400

\* C4: with the store available, update_plan with a plan outside
\* {free, plus, pro} answers 400 and changes no stored User, whatever the user_id.
C4_InvalidPlanRejected ==
    [][(last'.op = "update_plan" /\ dbUp
          /\ last'.req.plan \notin {"free", "plus", "pro"}) =>
        /\ last'.resp.status = 400
        /\ users' = users]_vars

C4_Witness ==
    /\ last.op = "update_plan"
    /\ last.req.plan = "gold"
    /\ last.resp.status = 400
    /\ \E i \in DOMAIN users : OidStr(users[i]._id) = last.req.user_id

\* C5: update_plan with a valid plan answers 404 for a well-formed id of no
\* stored User and 400 for a malformed id, changing nothing in both cases; for
\* an existing id it sets that User's plan, only that, and returns the User.
C5_UpdatePlanIdentifierErrors ==
    [][(last'.op = "update_plan" /\ dbUp
          /\ last'.req.plan \in {"free", "plus", "pro"}) =>
        /\ ~IsValidOid(last'.req.user_id) =>
              (last'.resp.status = 400 /\ users' = users)
        /\ (IsValidOid(last'.req.user_id)
              /\ ObjectId(last'.req.user_id) \notin StoredIds(users)) =>
              (last'.resp.status = 404 /\ users' = users)
        /\ (IsValidOid(last'.req.user_id)
              /\ ObjectId(last'.req.user_id) \in StoredIds(users)) =>
              /\ last'.resp.status = 200
              /\ Len(users') = Len(users)
              /\ \A i \in DOMAIN users :
                    users'[i] = IF users[i]._id = ObjectId(last'.req.user_id)
                                THEN [users[i] EXCEPT !.plan = last'.req.plan]
                                ELSE users[i]
              /\ last'.resp.body \in UserView(users')
              /\ last'.resp.body.id = last'.req.user_id]_vars

\* C6: with the store unavailable each of the six store handlers answers 500
\* "Database not available" whatever its input and changes nothing; GET / and
\* GET /test always answer 200.
C6_UnavailableShortCircuit ==
    [][/\ (~dbUp /\ last'.op \in Handlers) =>
            (last'.resp = Unavailable /\ storeVars' = storeVars)
       /\ last'.op \in {"root", "test_database"} => last'.resp.status = 200]_vars

C6_Witness ==
    /\ ~dbUp
    /\ last.op = "update_plan"
    /\ last.req.plan = "gold"
    /\ last.req.user_id = "not-an-id"
    /\ last.resp.status = 500

ListedAreOwned ==
    \A item \in Range(last.resp.body) :
        /\ item \in CharacterView(characters)
        /\ item.user_id = last.req.user_id

\* C7 as stated: list_characters returns at most limit items, each a stored
\* Character of the queried user_id, for every integer limit.
C7_ListBounded_AsStated ==
    (last.op = "list_characters" /\ dbUp) =>
        /\ last.resp.status = 200
        /\ Len(last.resp.body) <= last.req.limit
        /\ ListedAreOwned

\* C7 amended: list_characters returns at most limit items, each a stored
\* Character of the queried user_id, for every limit >= 1.
C7_ListBounded ==
    (last.op = "list_characters" /\ dbUp /\ last.req.limit >= 1) =>
        /\ last.resp.status = 200
        /\ Len(last.resp.body) <= last.req.limit
        /\ ListedAreOwned

C7_Witness ==
    /\ last.op = "list_characters"
    /\ last.req.limit = 1
    /\ Len(last.resp.body) = 1
    /\ Cardinality({i \in DOMAIN characters :
                       characters[i].user_id = last.req.user_id}) >= 2

GuestCount(cs) == Cardinality({i \in DOMAIN cs : cs[i].user_id = "guest"})

\* C8: generate_character without a user_id stores exactly one new Character,
\* owned by "guest" and carrying the placeholder preview, and
\* list_characters("guest") then returns it whenever the limit is not exceeded.
C8_GuestCharacterListed ==
    [][(last'.op = "generate_character" /\ dbUp /\ ~last'.req.user_id.some) =>
        /\ last'.resp.status = 200
        /\ Len(characters') = Len(characters) + 1
        /\ SubSeq(characters', 1, Len(characters)) = characters
        /\ LET c == characters'[Len(characters')]
           IN  /\ c.user_id = "guest"
               /\ c.preview_url = PREVIEW_URL
               /\ c.prompt = last'.req.payload.prompt
               /\ last'.resp.body = to_str_id(c)
               /\ \A limit \in Limits :
                     limit >= GuestCount(characters') =>
                        to_str_id(c) \in
                          Range(list_characters(dbUp, characters', "guest", limit).body)]_vars

C8_Witness ==
    /\ last.op = "generate_character"
    /\ ~last.req.user_id.some
    /\ last.resp.status = 200
    /\ last.resp.body.user_id = "guest"
    /\ GuestCount(characters) >= 2

SameEmail(i, j) == i < j /\ users[i].email = users[j].email

\* C9: two stored Users share an email only when the later one was inserted by
\* a signup that another insert overtook between its check and its insert, and
\* every signup that passed its check answers 200 with the document it stored.
C9_DuplicatesOnlyByRace ==
    /\ \A i, j \in DOMAIN users : SameEmail(i, j) => users[j]._id \in raced
    /\ \A w \in Workers :
          (wpc[w] = "idle" /\ wresp[w].status \notin {0, 400, 500}) =>
              (wresp[w].status = 200 /\ wresp[w].body \in UserView(users))

C9_Witness ==
    /\ \E i, j \in DOMAIN users : SameEmail(i, j)
    /\ \A w \in Workers : wpc[w] = "idle" /\ wresp[w].status = 200
    /\ wresp[1].body.email = wresp[2].body.email
    /\ wresp[1].body.id /= wresp[2].body.id

Unchanged(old, new, fields) == \A f \in fields : new[f] = old[f]

\* C10: every stored document stays stored under its id with its fields as
\* created, a User's plan excepted; new documents get ids no document had; and
\* login, me and list_characters change nothing in the store.
C10_RecordsOnlyGrow ==
    [][/\ \A i \in DOMAIN users : \E j \in DOMAIN users' :
              /\ users'[j]._id = users[i]._id
              /\ DOMAIN users'[j] = DOMAIN users[i]
              /\ Unchanged(users[i], users'[j], {"email", "username", "password_hash"})
       /\ \A i \in DOMAIN characters : \E j \in DOMAIN characters' :
              characters'[j] = characters[i]
       /\ Len(users') >= Len(users)
       /\ Len(characters') >= Len(characters)
       /\ Cardinality(StoredIds(users') \cup StoredIds(characters'))
              = Len(users') + Len(characters')
       /\ last'.op \in {"login", "me", "list_characters"} =>
              storeVars' = storeVars]_vars

C10_Witness ==
    /\ Len(users) = 2
    /\ Len(characters) = 1
    /\ \E i \in DOMAIN users : users[i].plan = "pro"
    /\ last.op = "login"
    /\ last.resp.status = 200

====
